---- MODULE Spec2Model ----
(***************************************************************************)
(* atomic_http: the byte-accumulation read loop, the header terminator     *)
(* scanner, the content-length extractor and the raw request decoder of    *)
(* src/src/helpers/traits/http_stream.rs, with the Options of src/src/lib.rs *)
(*                                                                         *)
(* A byte buffer (Vec<u8>) is a sequence of one-character strings; text    *)
(* (String / &str) is a sequence of the same characters after              *)
(* from_utf8_lossy.  Option<T> is <<>> (None) or <<v>> (Some(v)).           *)
(***************************************************************************)
EXTENDS Integers, Sequences, FiniteSets, TLC

VARIABLES
    \* ---- parse_request / get_bytes_from_reader -------------------------
    options,                \* the Options snapshot handed to parse_request
    stream,                 \* who owns the TcpStream
    wire,                   \* bytes the peer has still to deliver
    eof,                    \* the peer has closed: every read returns Ok(0)
    pc,                     \* position of parse_request
    bytes,                  \* let mut bytes: Vec<u8>
    retry_count,            \* let mut retry_count
    headers_done,           \* let mut headers_done
    content_length,         \* let mut _content_length
    expected_total_length,  \* let mut expected_total_length
    acc_result,             \* get_bytes_from_reader: "" running, "Ok", "Err", "panic"
    error,                  \* the error value, once one has been produced
    flushed,                \* stream.flush() was awaited
    request,                \* Option: the Request<Body> get_request built
    response,               \* Option: the seeded Response<Writer>
    result,                 \* parse_request: "" running, "Ok", "Err", "panic"
    reads,                  \* history: stream.read calls issued
    wouldblocks,            \* history: reads that ended WouldBlock
    timeouts,               \* history: reads cut off by the timeout
    zero_reads,             \* history: reads that returned Ok(0)
    received,               \* history: sum of the n of the reads that returned Ok(n)
    stages,                 \* history: pipeline stages started, in order
    \* ---- the pure functions, applied to a drawn input -------------------
    arg,                    \* the argument drawn for the function
    ret,                    \* what the function returned
    called                  \* which function has been applied ("" = none yet)

vars == <<options, stream, wire, eof, pc, bytes, retry_count,
          headers_done, content_length, expected_total_length, acc_result,
          error, flushed, request, response, result,
          reads, wouldblocks, timeouts, zero_reads, received, stages,
          arg, ret, called>>

pipelineVars == <<options, stream, wire, eof, pc, bytes, retry_count,
                  headers_done, content_length, expected_total_length,
                  acc_result, error, flushed, request, response, result,
                  reads, wouldblocks, timeouts, zero_reads, received, stages>>

fnVars == <<arg, ret, called>>

(***************************************************************************)
(* Option<T>                                                               *)
(***************************************************************************)
None == <<>>
Some(v) == <<v>>
IsSome(o) == o # <<>>
Unwrap(o) == o[1]

Min(a, b) == IF a < b THEN a ELSE b

(***************************************************************************)
(* Characters and text                                                     *)
(***************************************************************************)
CR == "\r"
LF == "\n"
SP == " "
TAB == "\t"
\* One byte that is not valid UTF-8 on its own (0xFF), and the character
\* U+FFFD that from_utf8_lossy puts in its place.
BadByte == "0xFF"
Replacement == "U+FFFD"

CRLF == <<CR, LF>>
CRLFCRLF == <<CR, LF, CR, LF>>

UpperCase == <<"A","B","C","D","E","F","G","H","I","J","K","L","M",
               "N","O","P","Q","R","S","T","U","V","W","X","Y","Z">>
LowerCase == <<"a","b","c","d","e","f","g","h","i","j","k","l","m",
               "n","o","p","q","r","s","t","u","v","w","x","y","z">>
Digits == <<"0","1","2","3","4","5","6","7","8","9">>

Range(s) == {s[i] : i \in DOMAIN s}
IsDigit(c) == c \in Range(Digits)
DigitValue(c) == (CHOOSE i \in DOMAIN Digits : Digits[i] = c) - 1

\* char::is_whitespace, on the characters of the model
IsWhitespace(c) == c \in {SP, TAB, CR, LF}

\* String::from_utf8_lossy: invalid bytes become U+FFFD, the rest is kept
from_utf8_lossy(b) == [i \in DOMAIN b |-> IF b[i] = BadByte THEN Replacement ELSE b[i]]

\* str::to_lowercase
to_lowercase_char(c) ==
    IF c \in Range(UpperCase)
    THEN LowerCase[CHOOSE i \in DOMAIN UpperCase : UpperCase[i] = c]
    ELSE c
to_lowercase(s) == [i \in DOMAIN s |-> to_lowercase_char(s[i])]

\* str::starts_with
starts_with(s, p) == Len(s) >= Len(p) /\ SubSeq(s, 1, Len(p)) = p

\* str::trim: leading and trailing whitespace removed
RECURSIVE trim_start(_)
trim_start(s) ==
    IF s # <<>> /\ IsWhitespace(Head(s)) THEN trim_start(Tail(s)) ELSE s
RECURSIVE trim_end(_)
trim_end(s) ==
    IF s # <<>> /\ IsWhitespace(s[Len(s)])
    THEN trim_end(SubSeq(s, 1, Len(s) - 1))
    ELSE s
trim(s) == trim_end(trim_start(s))

\* str::find: 1-based index of the first occurrence of p in s at or after
\* index from, 0 when there is none
RECURSIVE find_from(_, _, _)
find_from(s, p, from) ==
    IF from + Len(p) - 1 > Len(s) THEN 0
    ELSE IF SubSeq(s, from, from + Len(p) - 1) = p THEN from
    ELSE find_from(s, p, from + 1)

\* str::split(pattern): the pieces between the non-overlapping occurrences
\* of p, leftmost first; always at least one piece
RECURSIVE split(_, _)
split(s, p) ==
    LET i == find_from(s, p, 1)
    IN  IF i = 0 THEN <<s>>
        ELSE <<SubSeq(s, 1, i - 1)>> \o split(SubSeq(s, i + Len(p), Len(s)), p)

\* str::lines: split after every "\n"; a piece loses its "\n" and then one
\* "\r" before it; a last piece without "\n" is kept as it is; no empty
\* last line
RECURSIVE lines(_)
lines(s) ==
    IF s = <<>> THEN <<>>
    ELSE LET i == find_from(s, <<LF>>, 1)
         IN  IF i = 0 THEN <<s>>
             ELSE LET l == SubSeq(s, 1, i - 1)
                      stripped == IF l # <<>> /\ l[Len(l)] = CR
                                  THEN SubSeq(l, 1, Len(l) - 1) ELSE l
                  IN  <<stripped>> \o lines(SubSeq(s, i + 1, Len(s)))

(***************************************************************************)
(* usize.  The machine word is modelled with UsizeBits bits.               *)
(***************************************************************************)
UsizeBits == 8
UsizeMax == 2 ^ UsizeBits - 1

\* str::parse::<usize>: an optional "+", then one or more decimal digits;
\* Err on anything else and on a value above usize::MAX
RECURSIVE parse_digits(_, _)
parse_digits(s, acc) ==
    IF s = <<>> THEN Some(acc)
    ELSE IF ~IsDigit(Head(s)) THEN None
    ELSE LET v == acc * 10 + DigitValue(Head(s))
         IN  IF v > UsizeMax THEN None ELSE parse_digits(Tail(s), v)
parse_usize(s) ==
    LET t == IF s # <<>> /\ Head(s) = "+" THEN Tail(s) ELSE s
    IN  IF t = <<>> THEN None ELSE parse_digits(t, 0)

(***************************************************************************)
(* find_headers_end                                                        *)
(***************************************************************************)
\* data.windows(4).position(|window| window == b"\r\n\r\n"): the 0-based
\* index of the first window equal to CRLFCRLF, scanning from index i
RECURSIVE windows4_position(_, _)
windows4_position(data, i) ==
    IF i + 4 > Len(data) THEN None
    ELSE IF SubSeq(data, i + 1, i + 4) = CRLFCRLF THEN Some(i)
    ELSE windows4_position(data, i + 1)

\* The scan taken from the back: the offset after the last CRLFCRLF
RECURSIVE windows4_rposition(_, _)
windows4_rposition(data, i) ==
    IF i < 0 THEN None
    ELSE IF SubSeq(data, i + 1, i + 4) = CRLFCRLF THEN Some(i)
    ELSE windows4_rposition(data, i - 1)
find_headers_end_last(data) ==
    LET pos == windows4_rposition(data, Len(data) - 4)
    IN  IF IsSome(pos) THEN Some(Unwrap(pos) + 4) ELSE None

find_headers_end(data) ==
    LET pos == windows4_position(data, 0)
    IN  IF IsSome(pos) THEN Some(Unwrap(pos) + 4) ELSE None

(***************************************************************************)
(* parse_content_length                                                    *)
(***************************************************************************)
ContentLengthPrefix ==
    <<"c", "o", "n", "t", "e", "n", "t", "-", "l", "e", "n", "g", "t", "h", ":">>

\* .find(|line| line.to_lowercase().starts_with("content-length:"))
RECURSIVE find_content_length_line(_)
find_content_length_line(ls) ==
    IF ls = <<>> THEN None
    ELSE IF starts_with(to_lowercase(Head(ls)), ContentLengthPrefix) THEN Some(Head(ls))
    ELSE find_content_length_line(Tail(ls))

\* line.split(':').nth(1).and_then(|len| len.trim().parse().ok())
content_length_value(line) ==
    LET parts == split(line, <<":">>)
    IN  IF Len(parts) < 2 THEN None ELSE parse_usize(trim(parts[2]))

parse_content_length(headers) ==
    LET line == find_content_length_line(lines(from_utf8_lossy(headers)))
    IN  IF IsSome(line) THEN content_length_value(Unwrap(line)) ELSE None

(***************************************************************************)
(* Options (src/src/lib.rs) and the inputs of the model                    *)
(***************************************************************************)
DefaultBufferSize == 4096

\* Bounds of the model
MaxRetry == 3           \* read_max_retry is drawn from 0..MaxRetry
MaxWouldBlock == 1      \* WouldBlock results tolerated in one run

ReadBufferSizes == {0, 16}
SegmentSizes == {1}     \* sizes of the short reads the peer's segments give
ImcompleteSizes == {0, 2, 30}

OptionsSet ==
    [read_buffer_size : ReadBufferSizes,
     read_max_retry : 0..MaxRetry,
     read_imcomplete_size : ImcompleteSizes]

RequestLine == <<"G", "E", "T", " ", "/">>
ContentLengthName ==
    <<"C", "o", "n", "t", "e", "n", "t", "-", "L", "e", "n", "g", "t", "h">>
HeaderLine(name, value) == name \o <<":", " ">> \o value

\* What a peer sends before it stalls or closes
WireHeaderOnly == RequestLine \o CRLFCRLF
WireBody ==
    RequestLine \o CRLF \o HeaderLine(ContentLengthName, <<"3">>) \o CRLFCRLF
        \o <<"a", "b", "c", "d">>
WireHuge ==
    RequestLine \o CRLF \o HeaderLine(ContentLengthName, <<"2", "5", "5">>)
        \o CRLFCRLF \o <<"a", "b">>
WireNoTerminator == RequestLine \o CRLF \o HeaderLine(<<"H", "o", "s", "t">>, <<"a">>) \o CRLF
WireIndented ==
    RequestLine \o CRLF \o <<SP>> \o HeaderLine(ContentLengthName, <<"1">>)
        \o CRLFCRLF \o <<"a">>
WireBadName == RequestLine \o CRLF \o HeaderLine(<<"a", " ", "b">>, <<"c">>) \o CRLFCRLF
Wires == {WireHeaderOnly, WireBody, WireHuge, WireNoTerminator, WireIndented,
          WireBadName}

NoError == [kind |-> "", retries |-> 0, got |-> 0, expected |-> 0, data |-> None]
IoError(what) == [NoError EXCEPT !.kind = what]

(***************************************************************************)
(* get_bytes_from_reader                                                   *)
(***************************************************************************)
\* lines 76-79
buffer_size(opts) ==
    IF opts.read_buffer_size = 0 THEN DefaultBufferSize ELSE opts.read_buffer_size

\* line 90: stream.read(&mut buf) returning Ok(n), n > 0: the sizes a read
\* can return with w still to come from the peer, at most the scratch chunk
chunk_sizes(opts, w) ==
    LET most == Min(buffer_size(opts), Len(w))
    IN  {n \in 1..most : n \in SegmentSizes \/ n = most}

\* The loop condition written with <= : one attempt too many
loop_condition_off_by_one(rc, opts) == rc <= opts.read_max_retry

\* line 87: while retry_count < max_retry
loop_condition(rc, opts) == rc < opts.read_max_retry

\* line 119: headers_end + length in usize arithmetic.  fits is FALSE when
\* the sum exceeds usize::MAX: a build with overflow checks panics there, a
\* build without them goes on with the wrapped sum.
usize_add(a, b) ==
    [fits |-> a + b <= UsizeMax, wrapped |-> (a + b) % (UsizeMax + 1)]

\* read_max_retry and retry_count are u8
U8Max == 255

\* The counter incremented by two
retry_increment_by_two(rc) == (rc + 2) % (U8Max + 1)

\* lines 105, 144: retry_count += 1 on a u8 (the value a build without
\* overflow checks goes on with)
retry_increment(rc) == (rc + 1) % (U8Max + 1)

\* A WouldBlock result counted as a retry
would_block_consumes_retry(rc) == retry_increment(rc)

\* lines 136-138: Err(WouldBlock) => continue: the counter as it was
would_block_retry_count(rc) == rc

\* The chunk put in place of the buffer
extend_overwrites(b, chunk) == chunk

\* line 111: bytes.extend_from_slice(&buf[..n])
extend_from_slice(b, chunk) == b \o chunk

\* The body taken as complete as soon as an expected length is known
body_complete_ignores_length(b, exp) == IsSome(exp)

\* lines 130-134: headers already done, the buffer has reached the
\* expected total length
body_complete(b, exp) == IsSome(exp) /\ Len(b) >= Unwrap(exp)

\* The zero-byte read always counted as a retry
zero_read_always_retries(b, exp) == TRUE

\* The zero-byte read always taken as the end of the message
zero_read_never_retries(b, exp) == FALSE

\* lines 96-110: Ok(0).  TRUE when the read counts as a retry and the loop
\* continues, FALSE when the loop breaks
zero_read_retries(b, exp) == IsSome(exp) /\ Len(b) < Unwrap(exp)

\* after_data without the else { break } of lines 126-128: headers without
\* a content length do not end the loop
after_data_no_else_break(b, hd, cl, exp) ==
    IF ~hd
    THEN LET headers_end == find_headers_end(b)
         IN  IF IsSome(headers_end)
             THEN LET length == parse_content_length(SubSeq(b, 1, Unwrap(headers_end)))
                  IN  IF IsSome(length)
                      THEN LET sum == usize_add(Unwrap(headers_end), Unwrap(length))
                           IN  [headers_done |-> TRUE, content_length |-> length,
                                expected |-> Some(sum.wrapped),
                                overflow |-> ~sum.fits,
                                brk |-> Len(b) >= sum.wrapped]
                      ELSE [headers_done |-> TRUE, content_length |-> None,
                            expected |-> exp, overflow |-> FALSE, brk |-> FALSE]
             ELSE [headers_done |-> hd, content_length |-> cl, expected |-> exp,
                   overflow |-> FALSE, brk |-> FALSE]
    ELSE [headers_done |-> hd, content_length |-> cl, expected |-> exp,
          overflow |-> FALSE,
          brk |-> IsSome(exp) /\ Len(b) >= Unwrap(exp)]

\* after_data that forgets the framing state once the headers are done:
\* the flag and the expected total length are cleared by the next chunk
after_data_forgets_framing(b, hd, cl, exp) ==
    IF ~hd
    THEN LET headers_end == find_headers_end(b)
         IN  IF IsSome(headers_end)
             THEN LET length == parse_content_length(SubSeq(b, 1, Unwrap(headers_end)))
                  IN  IF IsSome(length)
                      THEN LET sum == usize_add(Unwrap(headers_end), Unwrap(length))
                           IN  [headers_done |-> TRUE, content_length |-> length,
                                expected |-> Some(sum.wrapped),
                                overflow |-> ~sum.fits,
                                brk |-> Len(b) >= sum.wrapped]
                      ELSE [headers_done |-> TRUE, content_length |-> None,
                            expected |-> exp, overflow |-> FALSE, brk |-> TRUE]
             ELSE [headers_done |-> hd, content_length |-> cl, expected |-> exp,
                   overflow |-> FALSE, brk |-> FALSE]
    ELSE [headers_done |-> FALSE, content_length |-> None, expected |-> None,
          overflow |-> FALSE, brk |-> FALSE]

\* lines 111-134: Ok(n), n > 0, after bytes.extend_from_slice.  b is the
\* buffer with the chunk appended.  overflow tells that line 119 overflowed;
\* the other fields are what the loop goes on with when the sum wrapped.
after_data(b, hd, cl, exp) ==
    IF ~hd
    THEN LET headers_end == find_headers_end(b)
         IN  IF IsSome(headers_end)
             THEN LET length == parse_content_length(SubSeq(b, 1, Unwrap(headers_end)))
                  IN  IF IsSome(length)
                      THEN LET sum == usize_add(Unwrap(headers_end), Unwrap(length))
                           IN  [headers_done |-> TRUE, content_length |-> length,
                                expected |-> Some(sum.wrapped),
                                overflow |-> ~sum.fits,
                                brk |-> Len(b) >= sum.wrapped]
                      ELSE [headers_done |-> TRUE, content_length |-> None,
                            expected |-> exp, overflow |-> FALSE, brk |-> TRUE]
             ELSE [headers_done |-> hd, content_length |-> cl, expected |-> exp,
                   overflow |-> FALSE, brk |-> FALSE]
    ELSE [headers_done |-> hd, content_length |-> cl, expected |-> exp,
          overflow |-> FALSE,
          brk |-> body_complete(b, exp)]

\* lines 168-173: &bytes[headers_end..size] or &bytes[..size] as text; None
\* when the range is out of order or past the end of the buffer (the slice
\* index panics)
incomplete_slice(b, size) ==
    LET headers_end == find_headers_end(b)
        start == IF IsSome(headers_end) THEN Unwrap(headers_end) ELSE 0
    IN  IF start > size \/ size > Len(b) THEN None
        ELSE Some(from_utf8_lossy(SubSeq(b, start + 1, size)))

\* post_loop without the empty-buffer check of lines 150-153
post_loop_no_empty_check(b, exp, opts) ==
    IF IsSome(exp) /\ Len(b) < Unwrap(exp)
    THEN [kind |-> "Err", flushed |-> TRUE,
          error |-> [kind |-> "incomplete", retries |-> opts.read_max_retry,
                     got |-> Len(b), expected |-> Unwrap(exp), data |-> None]]
    ELSE [kind |-> "Ok", flushed |-> FALSE, error |-> NoError]

\* post_loop with the final check of line 157 one byte too lenient
post_loop_one_byte_lenient(b, exp, opts) ==
    IF Len(b) = 0
    THEN [kind |-> "Err", flushed |-> TRUE, error |-> IoError("no data")]
    ELSE IF IsSome(exp) /\ Len(b) + 1 < Unwrap(exp)
    THEN [kind |-> "Err", flushed |-> TRUE,
          error |-> [kind |-> "incomplete", retries |-> opts.read_max_retry,
                     got |-> Len(b), expected |-> Unwrap(exp), data |-> None]]
    ELSE [kind |-> "Ok", flushed |-> FALSE, error |-> NoError]

\* post_loop without the final check of lines 156-179
post_loop_no_final_check(b, exp, opts) ==
    IF Len(b) = 0
    THEN [kind |-> "Err", flushed |-> TRUE, error |-> IoError("no data")]
    ELSE [kind |-> "Ok", flushed |-> FALSE, error |-> NoError]

\* lines 150-181: what the function does once the loop has ended
post_loop(b, exp, opts) ==
    IF Len(b) = 0
    THEN [kind |-> "Err", flushed |-> TRUE, error |-> IoError("no data")]
    ELSE IF IsSome(exp) /\ Len(b) < Unwrap(exp)
    THEN LET msg == [kind |-> "incomplete", retries |-> opts.read_max_retry,
                     got |-> Len(b), expected |-> Unwrap(exp), data |-> None]
         IN  IF opts.read_imcomplete_size = 0
             THEN [kind |-> "Err", flushed |-> TRUE, error |-> msg]
             ELSE LET slice == incomplete_slice(b, opts.read_imcomplete_size)
                  IN  IF IsSome(slice)
                      THEN [kind |-> "Err", flushed |-> TRUE,
                            error |-> [msg EXCEPT !.data = slice]]
                      ELSE [kind |-> "panic", flushed |-> TRUE, error |-> NoError]
    ELSE [kind |-> "Ok", flushed |-> FALSE, error |-> NoError]

\* The hard I/O error handled like a break: the checks after the loop run
read_error_breaks(b, exp, opts) == post_loop(b, exp, opts)

\* lines 139-141: Err(e) => return Err(e.into()), nothing flushed
read_error_result(b, exp, opts) ==
    [kind |-> "Err", flushed |-> FALSE, error |-> IoError("io")]

\* parse_request without the ? of line 39: it goes on to get_request
\* whatever get_bytes_from_reader returned
after_accumulator_without_question_mark(kind) ==
    [pc |-> "get_request", result |-> "", stream |-> "parse_request"]

\* Where parse_request stands once get_bytes_from_reader has returned kind
\* (line 39: the ? returns the error to the caller)
after_accumulator(kind) ==
    CASE kind = "Ok" ->
           [pc |-> "get_request", result |-> "", stream |-> "parse_request"]
      [] kind = "Err" ->
           [pc |-> "returned", result |-> "Err", stream |-> "dropped"]
      [] OTHER ->
           [pc |-> "panicked", result |-> "panic", stream |-> "dropped"]

\* The loop goes round again (continue, or the end of the match), or ends
\* (break, or the loop condition fails) and the function returns
EndIteration(b, rc, exp, brk) ==
    IF ~brk /\ loop_condition(rc, options)
    THEN /\ pc' = "read"
         /\ UNCHANGED <<acc_result, error, flushed, result, stream>>
    ELSE LET r == post_loop(b, exp, options)
             nxt == after_accumulator(r.kind)
         IN  /\ acc_result' = r.kind
             /\ error' = r.error
             /\ flushed' = r.flushed
             /\ pc' = nxt.pc
             /\ result' = nxt.result
             /\ stream' = nxt.stream

(***************************************************************************)
(* get_request                                                             *)
(***************************************************************************)
\* http::Method::from_str, on the characters of the model: a non-empty
\* token of method characters
MethodChars ==
    Range(UpperCase) \cup Range(LowerCase) \cup Range(Digits)
        \cup {"!", "#", "$", "%", "&", "'", "*", "+", "-", ".", "^", "_", "|", "~"}
method_parses(tok) == tok # <<>> /\ \A i \in DOMAIN tok : tok[i] \in MethodChars

\* http::Uri::from_str, on the characters of the model: "*", a path that
\* starts with "/", or an authority, which holds no "/" or "?"
UriChars ==
    Range(UpperCase) \cup Range(LowerCase) \cup Range(Digits)
        \cup {"/", ".", "-", "_", "~", "*", "?", "=", "&", "%", "+"}
uri_parses(tok) ==
    /\ tok # <<>>
    /\ \A i \in DOMAIN tok : tok[i] \in UriChars
    /\ \/ Head(tok) = "/"
       \/ tok = <<"*">>
       \/ \A i \in DOMAIN tok : tok[i] \notin {"/", "?", "*"}

\* The text of the version tokens of lines 233-237
V09 == <<"H", "T", "T", "P", "/", "0", ".", "9">>
V10 == <<"H", "T", "T", "P", "/", "1", ".", "0">>
V11 == <<"H", "T", "T", "P", "/", "1", ".", "1">>
V20 == <<"H", "T", "T", "P", "/", "2", ".", "0">>
V30 == <<"H", "T", "T", "P", "/", "3", ".", "0">>

\* lines 232-239
match_version(tok) ==
    CASE tok = V09 -> "HTTP_09"
      [] tok = V10 -> "HTTP_10"
      [] tok = V11 -> "HTTP_11"
      [] tok = V20 -> "HTTP_2"
      [] tok = V30 -> "HTTP_3"
      [] OTHER -> "HTTP_11"

\* The first line read with an early return: a method that does not parse
\* ends the reading of the line, the URI and the version are not looked at
request_line_stops_at_bad_method(line) ==
    LET toks == split(line, <<SP>>)
    IN  IF ~method_parses(toks[1])
        THEN [method_option |-> None, uri_option |-> None,
              version_option |-> Some("HTTP_11")]
        ELSE [method_option |-> Some(toks[1]),
              uri_option |-> IF Len(toks) >= 2 /\ uri_parses(toks[2])
                             THEN Some(toks[2]) ELSE None,
              version_option |-> IF Len(toks) >= 3
                                 THEN Some(match_version(toks[3]))
                                 ELSE Some("HTTP_11")]

\* lines 209-246: the first line, split at single spaces
request_line(line) ==
    LET toks == split(line, <<SP>>)
    IN  [method_option |-> IF method_parses(toks[1]) THEN Some(toks[1]) ELSE None,
         uri_option |-> IF Len(toks) >= 2 /\ uri_parses(toks[2])
                        THEN Some(toks[2]) ELSE None,
         version_option |-> IF Len(toks) >= 3
                            THEN Some(match_version(toks[3]))
                            ELSE Some("HTTP_11")]

\* lines 248-259: a later line; the pair it adds to headers, if any
header_line(line) ==
    LET size_split == split(trim(line), <<":", SP>>)
    IN  IF Len(size_split) >= 2
        THEN Some(<<to_lowercase(size_split[1]), size_split[2]>>)
        ELSE None

\* lines 203-261: the pairs pushed for the lines from index i on (1-based);
\* an empty line is skipped
RECURSIVE header_lines(_, _)
header_lines(ls, i) ==
    IF i > Len(ls) THEN <<>>
    ELSE LET h == IF ls[i] = <<>> THEN None ELSE header_line(ls[i])
         IN  (IF IsSome(h) THEN <<Unwrap(h)>> ELSE <<>>) \o header_lines(ls, i + 1)

NoRequestLine == [method_option |-> None, uri_option |-> None, version_option |-> None]

\* lines 195-262: what the closure leaves in method_option, uri_option,
\* version_option and headers
parse_headers_string(headers_string) ==
    IF headers_string = <<>>
    THEN [first |-> NoRequestLine, headers |-> <<>>]
    ELSE LET line_split == split(headers_string, CRLF)
         IN  [first |-> IF line_split[1] = <<>> THEN NoRequestLine
                        ELSE request_line(line_split[1]),
              headers |-> header_lines(line_split, 2)]

\* http::header::HeaderName and HeaderValue, on the characters of the
\* model: a name is a non-empty token, a value holds no control character
\* but the tab
HeaderNameChars ==
    Range(LowerCase) \cup Range(Digits)
        \cup {"!", "#", "$", "%", "&", "'", "*", "+", "-", ".", "^", "_", "|", "~"}
header_name_ok(name) == name # <<>> /\ \A i \in DOMAIN name : name[i] \in HeaderNameChars
header_value_ok(value) == \A i \in DOMAIN value : value[i] \notin {CR, LF}

\* lines 263-292: the builder; None when a header is rejected (.body()?)
build_request(parsed, body) ==
    IF \A i \in DOMAIN parsed.headers :
          /\ header_name_ok(parsed.headers[i][1])
          /\ header_value_ok(parsed.headers[i][2])
    THEN Some([method |-> IF IsSome(parsed.first.method_option)
                          THEN Unwrap(parsed.first.method_option)
                          ELSE <<"G", "E", "T">>,
               uri |-> IF IsSome(parsed.first.uri_option)
                       THEN Unwrap(parsed.first.uri_option)
                       ELSE <<"/">>,
               version |-> IF IsSome(parsed.first.version_option)
                           THEN Unwrap(parsed.first.version_option)
                           ELSE "HTTP_11",
               headers |-> parsed.headers,
               body |-> body,
               len |-> Len(body)])
    ELSE None

\* lines 188-292, given the two slices split_header_body returned
decode(header, body) ==
    build_request(parse_headers_string(from_utf8_lossy(header)), body)

\* helpers/traits/bytes.rs, SplitBytes::split_header_body: the bytes before
\* the header terminator and the bytes after it; without a terminator the
\* header slice is empty and the body is the whole buffer
split_header_body(b) ==
    LET headers_end == find_headers_end(b)
    IN  IF IsSome(headers_end)
        THEN <<SubSeq(b, 1, Unwrap(headers_end) - 4),
               SubSeq(b, Unwrap(headers_end) + 1, Len(b))>>
        ELSE <<<<>>, b>>

get_request(b) ==
    LET parts == split_header_body(b)
    IN  decode(parts[1], parts[2])

\* get_parse_result_from_request, lines 52-68
seed_response(req, opts) ==
    [version |-> req.version,
     content_type |-> "application/json",
     status |-> 400,
     writer |-> [body |-> <<>>, bytes |-> <<>>, use_file |-> FALSE, options |-> opts]]

(***************************************************************************)
(* parse_request: the state machine                                        *)
(***************************************************************************)
IdleFn == arg = <<>> /\ ret = <<>> /\ called = ""

Init ==
    /\ options \in OptionsSet
    /\ wire \in Wires
    /\ stream = "parse_request"
    /\ eof = FALSE
    /\ pc = "set_nodelay"
    /\ bytes = <<>>
    /\ retry_count = 0
    /\ headers_done = FALSE
    /\ content_length = None
    /\ expected_total_length = None
    /\ acc_result = ""
    /\ error = NoError
    /\ flushed = FALSE
    /\ request = None
    /\ response = None
    /\ result = ""
    /\ reads = 0
    /\ wouldblocks = 0
    /\ timeouts = 0
    /\ zero_reads = 0
    /\ received = 0
    /\ stages = <<>>
    /\ IdleFn

\* line 37: self.set_nodelay(options.no_delay)?
SetNoDelay ==
    /\ pc = "set_nodelay"
    /\ stages' = Append(stages, "set_nodelay")
    /\ \E ok \in BOOLEAN :
          IF ok
          THEN /\ pc' = "get_bytes_from_reader"
               /\ UNCHANGED <<result, error, stream>>
          ELSE /\ pc' = "returned"
               /\ result' = "Err"
               /\ error' = IoError("set_nodelay")
               /\ stream' = "dropped"
    /\ UNCHANGED <<options, wire, eof, bytes, retry_count, headers_done,
                   content_length, expected_total_length, acc_result, flushed,
                   request, response, reads, wouldblocks, timeouts, zero_reads, received>>
    /\ UNCHANGED fnVars

\* lines 75-87: the locals are set up and the loop condition is tested for
\* the first time
EnterAccumulator ==
    /\ pc = "get_bytes_from_reader"
    /\ stages' = Append(stages, "get_bytes_from_reader")
    /\ bytes' = <<>>
    /\ retry_count' = 0
    /\ headers_done' = FALSE
    /\ content_length' = None
    /\ expected_total_length' = None
    /\ EndIteration(<<>>, 0, None, FALSE)
    /\ UNCHANGED <<options, wire, eof, request, response, reads, wouldblocks,
                   timeouts, zero_reads, received>>
    /\ UNCHANGED fnVars

\* lines 94-95, 111-135: Ok(n) with n > 0.  When line 119 overflows, the
\* build decides: the task panics (overflow checks on) or the sum wraps.
ReadData ==
    /\ pc = "read"
    /\ ~eof
    /\ \E n \in chunk_sizes(options, wire) :
          LET b == extend_from_slice(bytes, SubSeq(wire, 1, n))
              a == after_data(b, headers_done, content_length, expected_total_length)
          IN  /\ wire' = SubSeq(wire, n + 1, Len(wire))
              /\ received' = received + n
              /\ bytes' = b
              /\ headers_done' = a.headers_done
              /\ content_length' = a.content_length
              /\ \/ /\ a.overflow
                    /\ expected_total_length' = expected_total_length
                    /\ pc' = "panicked"
                    /\ acc_result' = "panic"
                    /\ result' = "panic"
                    /\ stream' = "dropped"
                    /\ UNCHANGED <<error, flushed>>
                 \/ /\ expected_total_length' = a.expected
                    /\ EndIteration(b, retry_count, a.expected, a.brk)
    /\ reads' = reads + 1
    /\ UNCHANGED <<options, eof, retry_count, request, response, wouldblocks,
                   timeouts, zero_reads, stages>>
    /\ UNCHANGED fnVars

\* lines 96-110: Ok(0), the peer has closed
ReadZero ==
    /\ pc = "read"
    /\ eof' = TRUE
    /\ wire' = <<>>
    /\ reads' = reads + 1
    /\ zero_reads' = zero_reads + 1
    /\ IF zero_read_retries(bytes, expected_total_length)
       THEN /\ retry_count' = retry_increment(retry_count)
            /\ EndIteration(bytes, retry_increment(retry_count),
                            expected_total_length, FALSE)
       ELSE /\ retry_count' = retry_count
            /\ EndIteration(bytes, retry_count, expected_total_length, TRUE)
    /\ UNCHANGED <<options, bytes, headers_done, content_length,
                   expected_total_length, request, response, wouldblocks,
                   timeouts, received, stages>>
    /\ UNCHANGED fnVars

\* lines 136-138: Err(WouldBlock)
ReadWouldBlock ==
    /\ pc = "read"
    /\ ~eof
    /\ wouldblocks < MaxWouldBlock
    /\ reads' = reads + 1
    /\ wouldblocks' = wouldblocks + 1
    /\ retry_count' = would_block_retry_count(retry_count)
    /\ EndIteration(bytes, would_block_retry_count(retry_count),
                    expected_total_length, FALSE)
    /\ UNCHANGED <<options, wire, eof, bytes, headers_done,
                   content_length, expected_total_length, request, response,
                   timeouts, zero_reads, received,
                   stages>>
    /\ UNCHANGED fnVars

\* lines 143-146: the timeout elapsed before the read completed
ReadTimeout ==
    /\ pc = "read"
    /\ ~eof
    /\ reads' = reads + 1
    /\ timeouts' = timeouts + 1
    /\ retry_count' = retry_increment(retry_count)
    /\ EndIteration(bytes, retry_increment(retry_count), expected_total_length, FALSE)
    /\ UNCHANGED <<options, wire, eof, bytes, headers_done, content_length,
                   expected_total_length, request, response, wouldblocks,
                   zero_reads, received,
                   stages>>
    /\ UNCHANGED fnVars

\* lines 139-141: any other I/O error
ReadError ==
    /\ pc = "read"
    /\ reads' = reads + 1
    /\ LET r == read_error_result(bytes, expected_total_length, options)
           nxt == after_accumulator(r.kind)
       IN  /\ acc_result' = r.kind
           /\ error' = r.error
           /\ flushed' = r.flushed
           /\ pc' = nxt.pc
           /\ result' = nxt.result
           /\ stream' = nxt.stream
    /\ UNCHANGED <<options, wire, eof, bytes, retry_count, headers_done,
                   content_length, expected_total_length, request,
                   response, wouldblocks, timeouts, zero_reads, received,
                   stages>>
    /\ UNCHANGED fnVars

\* line 41: let request = get_request(bytes).await?
GetRequest ==
    /\ pc = "get_request"
    /\ stages' = Append(stages, "get_request")
    /\ LET r == get_request(bytes)
       IN  IF IsSome(r)
           THEN /\ request' = r
                /\ pc' = "get_parse_result_from_request"
                /\ UNCHANGED <<result, error, stream>>
           ELSE /\ request' = None
                /\ pc' = "returned"
                /\ result' = "Err"
                /\ error' = IoError("request")
                /\ stream' = "dropped"
    /\ UNCHANGED <<options, wire, eof, bytes, retry_count, headers_done,
                   content_length, expected_total_length, acc_result, flushed,
                   response, reads, wouldblocks, timeouts, zero_reads, received>>
    /\ UNCHANGED fnVars

\* line 43: Ok(get_parse_result_from_request(request, stream, options)?)
GetParseResult ==
    /\ pc = "get_parse_result_from_request"
    /\ stages' = Append(stages, "get_parse_result_from_request")
    /\ response' = Some(seed_response(Unwrap(request), options))
    /\ stream' = "writer"
    /\ result' = "Ok"
    /\ pc' = "returned"
    /\ UNCHANGED <<options, wire, eof, bytes, retry_count, headers_done,
                   content_length, expected_total_length, acc_result, error,
                   flushed, request, reads, wouldblocks, timeouts, zero_reads, received>>
    /\ UNCHANGED fnVars

Next ==
    \/ SetNoDelay
    \/ EnterAccumulator
    \/ ReadData
    \/ ReadZero
    \/ ReadWouldBlock
    \/ ReadTimeout
    \/ ReadError
    \/ GetRequest
    \/ GetParseResult

Spec == Init /\ [][Next]_vars

(***************************************************************************)
(* The retry counter over the whole range of read_max_retry (u8): the      *)
(* pipeline on a peer that sends nothing, for every budget, and on a peer  *)
(* that sends a header block declaring a body it never sends, one byte a   *)
(* read, for the largest budget.                                           *)
(***************************************************************************)
WireNoBody ==
    RequestLine \o CRLF \o HeaderLine(ContentLengthName, <<"3">>) \o CRLFCRLF

RetryRuns ==
    {[max_retry |-> m, wire |-> <<>>] : m \in 0..U8Max}
        \cup {[max_retry |-> U8Max, wire |-> WireNoBody]}

InitRetry ==
    /\ \E run \in RetryRuns :
          /\ options = [read_buffer_size |-> 1,
                        read_max_retry |-> run.max_retry,
                        read_imcomplete_size |-> 0]
          /\ wire = run.wire
    /\ stream = "parse_request"
    /\ eof = FALSE
    /\ pc = "set_nodelay"
    /\ bytes = <<>>
    /\ retry_count = 0
    /\ headers_done = FALSE
    /\ content_length = None
    /\ expected_total_length = None
    /\ acc_result = ""
    /\ error = NoError
    /\ flushed = FALSE
    /\ request = None
    /\ response = None
    /\ result = ""
    /\ reads = 0
    /\ wouldblocks = 0
    /\ timeouts = 0
    /\ zero_reads = 0
    /\ received = 0
    /\ stages = <<>>
    /\ IdleFn

SpecRetry == InitRetry /\ [][Next]_vars

(***************************************************************************)
(* The pure functions, each applied once to an input drawn from a bounded  *)
(* set                                                                     *)
(***************************************************************************)
IdlePipeline ==
    /\ options = [read_buffer_size |-> 0, read_max_retry |-> 0,
                  read_imcomplete_size |-> 0]
    /\ wire = <<>>
    /\ stream = "parse_request"
    /\ eof = FALSE
    /\ pc = "idle"
    /\ bytes = <<>>
    /\ retry_count = 0
    /\ headers_done = FALSE
    /\ content_length = None
    /\ expected_total_length = None
    /\ acc_result = ""
    /\ error = NoError
    /\ flushed = FALSE
    /\ request = None
    /\ response = None
    /\ result = ""
    /\ reads = 0
    /\ wouldblocks = 0
    /\ timeouts = 0
    /\ zero_reads = 0
    /\ received = 0
    /\ stages = <<>>

\* All sequences over alphabet of length at most n
SeqsUpTo(alphabet, n) == UNION {[1..k -> alphabet] : k \in 0..n}

RECURSIVE Join(_, _)
Join(pieces, sep) ==
    IF pieces = <<>> THEN <<>>
    ELSE IF Len(pieces) = 1 THEN pieces[1]
    ELSE pieces[1] \o sep \o Join(Tail(pieces), sep)

\* ---- find_headers_end ---------------------------------------------------
MaxScanLen == 8
ScanInputs == SeqsUpTo({CR, LF, "x"}, MaxScanLen)

InitScan ==
    /\ IdlePipeline
    /\ arg \in ScanInputs
    /\ ret = None
    /\ called = ""

CallFindHeadersEnd ==
    /\ called = ""
    /\ ret' = find_headers_end(arg)
    /\ called' = "find_headers_end"
    /\ UNCHANGED arg
    /\ UNCHANGED pipelineVars

NextScan == CallFindHeadersEnd

SpecScan == InitScan /\ [][NextScan]_vars

\* ---- parse_content_length -----------------------------------------------
ContentLengthLines ==
    {RequestLine,
     HeaderLine(ContentLengthName, <<"5">>),
     <<SP>> \o HeaderLine(ContentLengthName, <<"5">>),
     HeaderLine(ContentLengthName, <<"5", ":", "6">>),
     HeaderLine(ContentLengthName, <<"+", "5">>),
     HeaderLine(ContentLengthName, <<"9", "9", "9">>),
     HeaderLine(ContentLengthName, <<"x">>),
     HeaderLine(ContentLengthName, <<>>),
     HeaderLine(ContentLengthName \o <<"y">>, <<"5">>),
     HeaderLine(<<"X", "-">> \o ContentLengthName, <<"5">>),
     <<"c", "o", "n", "t", "e", "n", "t", "-", "l", "e", "n", "g", "t", "h", ":", "7">>,
     <<"C", "O", "N", "T", "E", "N", "T", "-", "L", "E", "N", "G", "T", "H", ":", " ", "8">>,
     HeaderLine(<<"H", "o", "s", "t">>, <<"a">>)}

ContentLengthInputs ==
    {l1 \o s1 \o l2 \o CRLF \o tail :
        l1 \in ContentLengthLines, l2 \in ContentLengthLines,
        s1 \in {CRLF, <<LF>>}, tail \in {<<>>, CRLF}}

InitContentLength ==
    /\ IdlePipeline
    /\ arg \in ContentLengthInputs
    /\ ret = None
    /\ called = ""

CallParseContentLength ==
    /\ called = ""
    /\ ret' = parse_content_length(arg)
    /\ called' = "parse_content_length"
    /\ UNCHANGED arg
    /\ UNCHANGED pipelineVars

NextContentLength == CallParseContentLength

SpecContentLength == InitContentLength /\ [][NextContentLength]_vars

\* ---- get_request --------------------------------------------------------
MaxTokens == 3
RequestLineTokens ==
    {<<>>, <<"G", "E", "T">>, <<"P", "<">>, <<"/", "x">>, V10, V11, V20,
     <<"H", "T", "T", "P", "/", "9">>}
FirstLines == {Join(toks, <<SP>>) : toks \in SeqsUpTo(RequestLineTokens, MaxTokens)}

HeaderLines ==
    {pre \o name \o sep \o value \o post :
        pre \in {<<>>, <<SP>>},
        name \in {<<"H", "o", "s", "t">>, <<"K">>, <<>>, <<"a", " ", "b">>},
        sep \in {<<":", SP>>, <<":">>, <<>>},
        value \in {<<"a">>, <<"a", ":", SP, "b">>, <<>>},
        post \in {<<>>, <<SP>>}}
LastLines ==
    {<<>>, HeaderLine(<<"H", "o", "s", "t">>, <<"b">>),
     <<"B", "a", "d", "H", "e", "a", "d", "e", "r", "L", "i", "n", "e">>}

DecodeInputs ==
    {l : l \in FirstLines}
      \cup {l \o CRLF \o HeaderLine(<<"K">>, <<"v">>) : l \in FirstLines}
      \cup {RequestLine \o CRLF \o h1 \o CRLF \o h2 : h1 \in HeaderLines, h2 \in LastLines}

InitDecode ==
    /\ IdlePipeline
    /\ arg \in DecodeInputs
    /\ ret = None
    /\ called = ""

\* get_request on a buffer whose header slice is arg and whose body is
\* empty: ret holds the locals at line 262 and the Result of line 292
CallGetRequest ==
    /\ called = ""
    /\ ret' = Some([parsed |-> parse_headers_string(from_utf8_lossy(arg)),
                    request |-> decode(arg, <<>>)])
    /\ called' = "get_request"
    /\ UNCHANGED arg
    /\ UNCHANGED pipelineVars

NextDecode == CallGetRequest

SpecDecode == InitDecode /\ [][NextDecode]_vars

(***************************************************************************)
(* Properties of get_bytes_from_reader and parse_request                   *)
(***************************************************************************)
\* The buffer as the header block and the body the accumulator has seen
HeadersEnd == Unwrap(find_headers_end(bytes))
DeclaredLength == parse_content_length(SubSeq(bytes, 1, HeadersEnd))

\* C1, as claimed: whenever get_bytes_from_reader returns success, the
\* buffer holds a header terminator and, when a content length is declared,
\* at least header-terminator offset + declared length bytes.
C1_SuccessIsFramable ==
    acc_result = "Ok" =>
        /\ IsSome(find_headers_end(bytes))
        /\ IsSome(DeclaredLength) => Len(bytes) >= HeadersEnd + Unwrap(DeclaredLength)

\* C1, amended: whenever get_bytes_from_reader returns success the buffer
\* is not empty; headers_done tells whether the buffer holds a header
\* terminator; with a content length extracted, the expected total length
\* is offset + length in machine-word arithmetic and the buffer holds at
\* least that many bytes; a buffer without a terminator is returned as
\* success only once the peer has closed or the retry budget is used up.
C1_SuccessNonEmptyAndExpectedMet ==
    acc_result = "Ok" =>
        /\ Len(bytes) > 0
        /\ headers_done <=> IsSome(find_headers_end(bytes))
        /\ headers_done => content_length = DeclaredLength
        /\ IsSome(content_length) =>
              /\ expected_total_length =
                    Some((HeadersEnd + Unwrap(content_length)) % (UsizeMax + 1))
              /\ Len(bytes) >= Unwrap(expected_total_length)
        /\ ~headers_done =>
              /\ expected_total_length = None
              /\ eof \/ retry_count = options.read_max_retry

\* C1 witness: success is returned for a buffer without a header terminator
C1_Witness ==
    /\ acc_result = "Ok"
    /\ find_headers_end(bytes) = None
    /\ Len(bytes) > 0

\* The stream of C2: a header block of H bytes declaring L, then B < L body
\* bytes, then the peer closes; no timeout, no I/O error
C2_Stream ==
    /\ options.read_max_retry >= 1
    /\ headers_done
    /\ IsSome(content_length)
    /\ expected_total_length = Some(HeadersEnd + Unwrap(content_length))
    /\ Len(bytes) < Unwrap(expected_total_length)
    /\ eof
    /\ timeouts = 0
    /\ error.kind # "io"

\* C2, as claimed (the spec's example reports 40/140 for 40 body bytes): the
\* failure reports the body bytes received, H + L bytes expected and R
\* retries.
C2_ReportsBodyBytes ==
    (C2_Stream /\ acc_result = "Err") =>
        /\ error.kind = "incomplete"
        /\ error.retries = options.read_max_retry
        /\ error.got = Len(bytes) - HeadersEnd
        /\ error.expected = HeadersEnd + Unwrap(content_length)

\* C2, amended: on that stream every zero-byte read consumes one retry, the
\* function does not return before R retries are used and never returns
\* success; after the R-th it reaches the incomplete-data branch, which
\* reports H + B bytes received (header bytes included), H + L expected and
\* R retries - or panics in the diagnostic slice when a truncation length T
\* is configured with T < H or T > H + B.
C2_ClosedShortUsesAllRetries ==
    C2_Stream =>
        /\ retry_count = zero_reads
        /\ acc_result # "Ok"
        /\ acc_result = "" => retry_count < options.read_max_retry
        /\ acc_result # "" =>
              /\ retry_count = options.read_max_retry
              /\ flushed
        /\ acc_result = "Err" =>
              /\ error.kind = "incomplete"
              /\ error.retries = options.read_max_retry
              /\ error.got = Len(bytes)
              /\ error.expected = HeadersEnd + Unwrap(content_length)
        /\ acc_result = "panic" =>
              /\ options.read_imcomplete_size # 0
              /\ \/ options.read_imcomplete_size < HeadersEnd
                 \/ options.read_imcomplete_size > Len(bytes)

\* C2 witness: the spec's case with the retry budget of 3, body bytes short
C2_Witness ==
    /\ C2_Stream
    /\ options.read_max_retry = 3
    /\ Len(bytes) > HeadersEnd
    /\ acc_result = "Err"
    /\ error.kind = "incomplete"
    /\ zero_reads = 3

\* C3: when a read of n > 0 bytes makes the header terminator appear for
\* the first time and no content length can be extracted, the function
\* returns success in that step with the buffer as it is, the retry counter
\* keeps its value (zero when no timeout came before), and no read follows.
C3_NoLengthStopsAtOnce ==
    [][ /\ (pc = "read" /\ ~headers_done /\ headers_done' /\ content_length' = None) =>
            /\ acc_result' = "Ok"
            /\ pc' = "get_request"
            /\ retry_count' = retry_count
            /\ timeouts = 0 => retry_count' = 0
            /\ Len(bytes') > Len(bytes)
            /\ reads' = reads + 1
        /\ (headers_done /\ content_length = None) => (pc' # "read" /\ reads' = reads)
      ]_vars

\* C3 witness: the headers arrived after one timeout and carried no content
\* length; the function has returned success with one retry used
C3_Witness ==
    /\ acc_result = "Ok"
    /\ headers_done
    /\ content_length = None
    /\ timeouts = 1
    /\ retry_count = 1
    /\ options.read_max_retry > 1

\* C4, as claimed: apart from would-block results, the loop performs at
\* most max_retry reads.
C4_ReadsWithinBudget == reads - wouldblocks <= options.read_max_retry

\* C4, amended: the retry budget bounds the reads that bring no data: at
\* most max_retry reads end in a timeout or return zero bytes, and a read
\* is only issued while retry_count < max_retry.  Reads that return data
\* (and would-block results) do not count: their number is not bounded by
\* max_retry.
C4_EmptyReadsWithinBudget ==
    /\ timeouts + zero_reads <= options.read_max_retry
    /\ retry_count <= timeouts + zero_reads
    /\ pc = "read" => retry_count < options.read_max_retry

\* C4 witness: the budget is used up by timeouts and more reads than the
\* budget have been issued
C4_Witness ==
    /\ timeouts = options.read_max_retry
    /\ options.read_max_retry > 0
    /\ reads - wouldblocks > options.read_max_retry
    /\ acc_result # ""

PipelineStages ==
    <<"set_nodelay", "get_bytes_from_reader", "get_request",
      "get_parse_result_from_request">>

\* C5: the stages of parse_request run in order, each once and only after
\* the one before succeeded; the result is a request together with a seeded
\* response whose writer owns the stream, or an error with neither; no read
\* is issued once get_bytes_from_reader has returned.
C5_PipelineAllOrNothing ==
    /\ [](/\ Len(stages) <= 4
          /\ stages = SubSeq(PipelineStages, 1, Len(stages))
          /\ Len(stages) >= 3 => acc_result = "Ok"
          /\ Len(stages) = 4 => IsSome(request)
          /\ result = "Ok" <=> IsSome(response)
          /\ IsSome(response) =>
                /\ IsSome(request)
                /\ stream = "writer"
                /\ stages = PipelineStages
                /\ error = NoError
                /\ Unwrap(response).version = Unwrap(request).version
          /\ result \in {"Err", "panic"} =>
                /\ request = None
                /\ response = None
                /\ stream = "dropped"
          /\ result = "Err" <=> error.kind # ""
          /\ stream = "writer" => result = "Ok")
    /\ [][acc_result # "" => reads' = reads]_vars

\* C5 witness: both values are produced, the stream is with the writer
C5_Witness ==
    /\ result = "Ok"
    /\ IsSome(request)
    /\ IsSome(response)
    /\ stream = "writer"
    /\ reads > 1

\* The loop has ended with an expected total length and a shorter buffer
IncompleteData ==
    /\ acc_result \in {"Err", "panic"}
    /\ error.kind # "io"
    /\ IsSome(expected_total_length)
    /\ Len(bytes) > 0
    /\ Len(bytes) < Unwrap(expected_total_length)
    /\ flushed

\* C6, as claimed: with a truncation length T > 0 the incomplete-data
\* condition is returned as an error value, for every T, and the message
\* carries a slice of the buffer.
C6_IncompleteIsAnError ==
    (IncompleteData /\ options.read_imcomplete_size > 0) =>
        /\ acc_result = "Err"
        /\ error.kind = "incomplete"
        /\ IsSome(error.data)

(***************************************************************************)
(* Properties of find_headers_end                                          *)
(***************************************************************************)
\* CRLFCRLF stands at the 0-based offset i of d
TerminatorAt(d, i) == i + 4 <= Len(d) /\ SubSeq(d, i + 1, i + 4) = CRLFCRLF
TerminatorOffsets(d) == {i \in 0..Len(d) : TerminatorAt(d, i)}

\* C7: find_headers_end returns None for a sequence without CRLFCRLF, and
\* otherwise the offset just after the occurrence of CRLFCRLF with the
\* lowest index.
C7_FirstTerminator ==
    called = "find_headers_end" =>
        /\ TerminatorOffsets(arg) = {} => ret = None
        /\ TerminatorOffsets(arg) # {} =>
              \E i \in TerminatorOffsets(arg) :
                  /\ \A j \in TerminatorOffsets(arg) : i <= j
                  /\ ret = Some(i + 4)

\* C7 witness: overlapping occurrences (CRLFCRLFCRLF) after one byte
C7_Witness ==
    /\ called = "find_headers_end"
    /\ arg = <<"x", CR, LF, CR, LF, CR, LF>>
    /\ ret = Some(5)

(***************************************************************************)
(* Properties of parse_content_length                                      *)
(***************************************************************************)
ContentLengthText ==
    <<"c", "o", "n", "t", "e", "n", "t", "-", "l", "e", "n", "g", "t", "h">>

\* A line read as "name:value": the name is the text before the first ":",
\* the value the trimmed text after it
LineName(line) == SubSeq(line, 1, find_from(line, <<":">>, 1) - 1)
LineValue(line) == trim(SubSeq(line, find_from(line, <<":">>, 1) + 1, Len(line)))
NamesContentLength(line) ==
    /\ find_from(line, <<":">>, 1) > 0
    /\ to_lowercase(LineName(line)) = ContentLengthText

\* The first line of ls named content-length, None without one
RECURSIVE FirstNamedContentLength(_)
FirstNamedContentLength(ls) ==
    IF ls = <<>> THEN None
    ELSE IF NamesContentLength(Head(ls)) THEN Some(Head(ls))
    ELSE FirstNamedContentLength(Tail(ls))

\* What C8 says the extractor returns
ClaimedContentLength(h) ==
    LET line == FirstNamedContentLength(lines(from_utf8_lossy(h)))
    IN  IF IsSome(line) THEN parse_usize(LineValue(Unwrap(line))) ELSE None

\* The Request Decoder records a header named content-length for these
\* header bytes
DecoderSeesContentLength(h) ==
    LET parsed == parse_headers_string(from_utf8_lossy(h))
    IN  \E i \in DOMAIN parsed.headers : parsed.headers[i][1] = ContentLengthText

\* C8, as claimed: parse_content_length returns n exactly when the first
\* line named content-length (case-insensitively) has the non-negative
\* integer n as its value, and None otherwise; and it finds a content length
\* only where the Request Decoder records a content-length header.
C8_ExtractorMatchesHeaderLine ==
    called = "parse_content_length" =>
        /\ ret = ClaimedContentLength(arg)
        /\ IsSome(ret) => DecoderSeesContentLength(arg)

(***************************************************************************)
(* Properties of get_request                                               *)
(***************************************************************************)
\* A header line split once at its first ": "
SplitOnce(line) ==
    LET t == trim(line)
        k == find_from(t, <<":", SP>>, 1)
    IN  IF k = 0 THEN None
        ELSE Some(<<to_lowercase(SubSeq(t, 1, k - 1)), SubSeq(t, k + 2, Len(t))>>)

RECURSIVE SplitOnceAll(_, _)
SplitOnceAll(ls, i) ==
    IF i > Len(ls) THEN <<>>
    ELSE LET h == IF ls[i] = <<>> THEN None ELSE SplitOnce(ls[i])
         IN  (IF IsSome(h) THEN <<Unwrap(h)>> ELSE <<>>) \o SplitOnceAll(ls, i + 1)

\* C9, as claimed: every line after the first is trimmed and split once at
\* its first ": "; the pair (lower-cased name, everything after that
\* separator) is recorded, in the order of the lines; a line without the
\* separator is dropped.
C9_HeaderSplitOnce ==
    (called = "get_request" /\ arg # <<>>) =>
        Unwrap(ret).parsed.headers = SplitOnceAll(split(from_utf8_lossy(arg), CRLF), 2)

\* The tokens of the first line of the text
FirstLineTokens(text) == split(split(text, CRLF)[1], <<SP>>)
Token(text, i) ==
    IF i <= Len(FirstLineTokens(text)) THEN FirstLineTokens(text)[i] ELSE <<>>

\* C10: the request line never fails the decode (only a rejected header
\* pair does); the method, the URI and the version are each resolved from
\* their own token alone: the token when it parses, else GET, "/",
\* HTTP/1.1; the five recognised version strings map to their versions and
\* any other third token to HTTP/1.1.
C10_RequestLineDefaults ==
    called = "get_request" =>
        LET text == from_utf8_lossy(arg)
            req == Unwrap(ret).request
            pairs == Unwrap(ret).parsed.headers
        IN  /\ req = None =>
                  \E i \in DOMAIN pairs :
                      ~(header_name_ok(pairs[i][1]) /\ header_value_ok(pairs[i][2]))
            /\ req # None =>
                  /\ Unwrap(req).method =
                        IF method_parses(Token(text, 1)) THEN Token(text, 1)
                        ELSE <<"G", "E", "T">>
                  /\ Unwrap(req).uri =
                        IF uri_parses(Token(text, 2)) THEN Token(text, 2) ELSE <<"/">>
                  /\ Token(text, 3) = V09 => Unwrap(req).version = "HTTP_09"
                  /\ Token(text, 3) = V10 => Unwrap(req).version = "HTTP_10"
                  /\ Token(text, 3) = V11 => Unwrap(req).version = "HTTP_11"
                  /\ Token(text, 3) = V20 => Unwrap(req).version = "HTTP_2"
                  /\ Token(text, 3) = V30 => Unwrap(req).version = "HTTP_3"
                  /\ Token(text, 3) \notin {V09, V10, V11, V20, V30} =>
                        Unwrap(req).version = "HTTP_11"

\* C10 witness: the method token does not parse and is replaced by GET,
\* while the URI and the version are taken from their tokens
C10_Witness ==
    /\ called = "get_request"
    /\ arg = <<"P", "<", SP, "/", "x", SP>> \o V20
    /\ Unwrap(ret).request # None
    /\ Unwrap(Unwrap(ret).request).method = <<"G", "E", "T">>
    /\ Unwrap(Unwrap(ret).request).uri = <<"/", "x">>
    /\ Unwrap(Unwrap(ret).request).version = "HTTP_2"

\* C11: a loop that ends with an empty buffer (no read was allowed, every
\* attempt timed out or would block, or the first read that succeeded
\* returned zero bytes) makes the accumulator flush the stream and return
\* the "no data" failure; success is never returned with an empty buffer.
C11_EmptyBufferIsNoData ==
    /\ acc_result = "Ok" => Len(bytes) > 0
    /\ (acc_result # "" /\ Len(bytes) = 0 /\ error.kind # "io") =>
          /\ acc_result = "Err"
          /\ error = IoError("no data")
          /\ flushed
          /\ result = "Err"
          /\ received = 0
    /\ error.kind = "no data" =>
          /\ Len(bytes) = 0
          /\ \/ options.read_max_retry = 0 /\ reads = 0
             \/ timeouts = options.read_max_retry /\ zero_reads = 0
             \/ zero_reads = 1 /\ timeouts < options.read_max_retry

\* C11 witness: after one timeout the first read that succeeds returns zero
\* bytes and "no data" is returned
C11_Witness ==
    /\ error.kind = "no data"
    /\ flushed
    /\ timeouts = 1
    /\ zero_reads = 1
    /\ retry_count = 1

\* C12: the buffer length is the sum of the byte counts of the reads that
\* returned data; such a read appends exactly its bytes at the end of the
\* buffer; timeouts, would-block results and zero-byte reads leave the
\* buffer as it is; the buffer never gets shorter.
C12_BufferIsSumOfReads ==
    /\ [](Len(bytes) = received)
    /\ [][ /\ received' # received =>
               /\ received' > received
               /\ reads' = reads + 1
               /\ bytes' = bytes \o SubSeq(wire, 1, received' - received)
               /\ received' - received <= buffer_size(options)
           /\ (\/ timeouts' # timeouts
               \/ wouldblocks' # wouldblocks
               \/ zero_reads' # zero_reads) => bytes' = bytes
           /\ Len(bytes') >= Len(bytes)
           /\ SubSeq(bytes', 1, Len(bytes)) = bytes
         ]_vars

\* C12 witness: data reads, a timeout, a would-block result and a zero-byte
\* read have all happened, and the buffer holds the bytes of two reads
C12_Witness ==
    /\ received > 1
    /\ Len(bytes) = received
    /\ reads >= 5
    /\ timeouts >= 1
    /\ wouldblocks >= 1
    /\ zero_reads >= 1

\* C13: a read that returns zero bytes while an expected total length is
\* known and the buffer is shorter than it adds one to the retry counter
\* and goes back to the loop condition (the read is retried while the
\* budget lasts, the incomplete-data branch follows when it is used up);
\* in every other case, which in the loop means that no expected total
\* length has been computed, the loop stops at once and no retry is
\* consumed.  The buffer and the framing state are left as they were.
C13_ZeroReadHandling ==
    /\ []((pc = "read" /\ IsSome(expected_total_length)) =>
             Len(bytes) < Unwrap(expected_total_length))
    /\ [][ zero_reads' # zero_reads =>
             /\ bytes' = bytes
             /\ headers_done' = headers_done
             /\ expected_total_length' = expected_total_length
             /\ IF IsSome(expected_total_length)
                      /\ Len(bytes) < Unwrap(expected_total_length)
                THEN /\ retry_count' = retry_count + 1
                     /\ pc' = "read" <=> retry_count' < options.read_max_retry
                     /\ pc' # "read" => (acc_result' \in {"Err", "panic"} /\ flushed')
                ELSE /\ expected_total_length = None
                     /\ retry_count' = retry_count
                     /\ pc' # "read"
                     /\ acc_result' = (IF Len(bytes) = 0 THEN "Err" ELSE "Ok")
         ]_vars

\* C13 witness: a zero-byte read has consumed a retry and the loop goes on
C13_Witness ==
    /\ pc = "read"
    /\ zero_reads = 1
    /\ retry_count = 1
    /\ timeouts = 0
    /\ IsSome(expected_total_length)

\* C14: a read timeout adds exactly one to the retry counter; a would-block
\* result and a read that returns data leave the counter as it is; a
\* would-block result also leaves the buffer, the headers-complete flag and
\* the expected total length as they are; the counter never decreases.
C14_RetryAccounting ==
    [][ /\ timeouts' # timeouts => retry_count' = retry_count + 1
        /\ wouldblocks' # wouldblocks =>
              /\ retry_count' = retry_count
              /\ bytes' = bytes
              /\ headers_done' = headers_done
              /\ content_length' = content_length
              /\ expected_total_length' = expected_total_length
        /\ received' # received => retry_count' = retry_count
        /\ retry_count' >= retry_count
      ]_vars

\* C14 witness: timeouts, a would-block result and data reads have happened
\* and the counter holds the number of timeouts
C14_Witness ==
    /\ timeouts = 2
    /\ wouldblocks = 1
    /\ received > 0
    /\ zero_reads = 0
    /\ retry_count = 2
    /\ pc = "read"

\* C15: once the header terminator has been found the headers-complete
\* flag stays set and the expected total length, once computed, keeps its
\* value through every later step, whatever is appended; the loop only
\* goes on after the terminator when an expected total length was
\* computed, and from then on success is returned only with a buffer that
\* has reached it.
C15_FramingIsMonotonic ==
    /\ []((headers_done /\ pc = "read") => IsSome(expected_total_length))
    /\ []((acc_result = "Ok" /\ IsSome(expected_total_length)) =>
             Len(bytes) >= Unwrap(expected_total_length))
    /\ [][ /\ headers_done => headers_done'
           /\ headers_done => content_length' = content_length
           /\ IsSome(expected_total_length) =>
                 expected_total_length' = expected_total_length
           /\ IsSome(expected_total_length') => headers_done'
         ]_vars

\* C15 witness: after the expected total length was computed more data was
\* appended in later reads, and success was returned once it was reached
C15_Witness ==
    /\ acc_result = "Ok"
    /\ headers_done
    /\ IsSome(expected_total_length)
    /\ expected_total_length = Some(HeadersEnd + Unwrap(content_length))
    /\ Len(bytes) = Unwrap(expected_total_length)
    /\ reads = Len(bytes) + 1
    /\ timeouts = 1

\* C16: a read that fails with an I/O error other than WouldBlock makes the
\* accumulator return that error at once: no retry is consumed, the stream
\* is not flushed, the buffer is dropped with the error whatever it holds,
\* neither "no data" nor "incomplete data" is reported, and no read follows.
\* (A read that neither returned data or zero bytes, nor would block, nor
\* timed out, is the read that failed.)
C16_HardErrorReturnsAtOnce ==
    /\ [](error.kind = "io" =>
             /\ acc_result = "Err"
             /\ result = "Err"
             /\ pc = "returned"
             /\ ~flushed
             /\ request = None
             /\ response = None)
    /\ [][ /\ (/\ reads' # reads
                /\ received' = received
                /\ zero_reads' = zero_reads
                /\ wouldblocks' = wouldblocks
                /\ timeouts' = timeouts) =>
                 /\ error' = IoError("io")
                 /\ acc_result' = "Err"
                 /\ pc' = "returned"
                 /\ flushed' = FALSE
           /\ (error.kind # "io" /\ error'.kind = "io") =>
                 /\ pc = "read"
                 /\ reads' = reads + 1
                 /\ retry_count' = retry_count
                 /\ bytes' = bytes
                 /\ timeouts' = timeouts
                 /\ zero_reads' = zero_reads
           /\ error.kind = "io" => (reads' = reads /\ error' = error)
         ]_vars

\* C16 witness: the error arrives with bytes buffered, short of the
\* expected total length, and with retries left
C16_Witness ==
    /\ error.kind = "io"
    /\ IsSome(expected_total_length)
    /\ Len(bytes) > 0
    /\ Len(bytes) < Unwrap(expected_total_length)
    /\ retry_count = 1
    /\ options.read_max_retry > 1
    /\ ~flushed

\* C17, as claimed: for every content length the extractor accepts, the
\* expected total length is the exact sum of the header-terminator offset
\* and the declared length: the addition neither overflows nor wraps, and
\* the expected total length is never below the header-terminator offset.
C17_ExpectedIsExactSum ==
    (headers_done /\ IsSome(content_length)) =>
        /\ acc_result # "panic" \/ flushed
        /\ expected_total_length = Some(HeadersEnd + Unwrap(content_length))
        /\ Unwrap(expected_total_length) >= HeadersEnd

\* C18: the incomplete-data failure is reached only with the retry budget
\* used up: the retry counter equals max_retry, which is the count the
\* message prints and the number of timeouts and short zero-byte reads that
\* happened; the loop is never left through a stop condition while an
\* expected total length is known and the buffer is shorter than it.
C18_IncompleteOnlyWhenBudgetUsed ==
    /\ error.kind = "incomplete" =>
          /\ error.retries = retry_count
          /\ error.retries = timeouts + zero_reads
          /\ error.got = Len(bytes)
          /\ error.expected = Unwrap(expected_total_length)
    /\ (/\ acc_result # ""
        /\ error.kind # "io"
        /\ IsSome(expected_total_length)
        /\ Len(bytes) < Unwrap(expected_total_length)) =>
          /\ retry_count = options.read_max_retry
          /\ retry_count > 0
          /\ flushed
          /\ \/ acc_result = "Err" /\ error.kind = "incomplete"
             \/ acc_result = "panic" /\ options.read_imcomplete_size # 0

\* C18 witness: the failure is reported after a timeout and two zero-byte
\* reads have used a budget of three
C18_Witness ==
    /\ error.kind = "incomplete"
    /\ options.read_max_retry = 3
    /\ timeouts = 1
    /\ zero_reads = 2
    /\ error.retries = 3

\* C20: whenever the accumulator returns success the buffer is not empty
\* and, if an expected total length was computed, holds at least that many
\* bytes; bytes read past the expected total length are kept.
C20_SuccessCoversExpected ==
    acc_result = "Ok" =>
        /\ Len(bytes) > 0
        /\ Len(bytes) = received
        /\ IsSome(expected_total_length) =>
              Len(bytes) >= Unwrap(expected_total_length)

\* C20 witness: success is returned with a buffer longer than the expected
\* total length
C20_Witness ==
    /\ acc_result = "Ok"
    /\ IsSome(expected_total_length)
    /\ expected_total_length = Some(HeadersEnd + Unwrap(content_length))
    /\ Len(bytes) > Unwrap(expected_total_length)

\* C19: in every state of the read loop 0 <= retry_count <= max_retry, for
\* every max_retry a u8 can hold; the counter changes only by an increment
\* of one, made while retry_count < max_retry, so that the u8 addition
\* never overflows, max_retry = 255 included.
C19_RetryCountWithinBudget ==
    /\ [](/\ options.read_max_retry \in 0..U8Max
          /\ retry_count \in 0..options.read_max_retry
          /\ pc = "read" => retry_count < options.read_max_retry
          /\ retry_count = timeouts + zero_reads
                \/ (zero_reads = 1 /\ retry_count = timeouts))
    /\ [][retry_count' # retry_count =>
             /\ pc = "read"
             /\ retry_count < options.read_max_retry
             /\ retry_count + 1 <= U8Max
             /\ retry_count' = retry_count + 1
         ]_vars

\* C19 witness: with max_retry = 255 the counter has reached 255 through
\* timeouts and zero-byte reads
C19_Witness ==
    /\ options.read_max_retry = U8Max
    /\ retry_count = U8Max
    /\ timeouts > 0
    /\ zero_reads > 0
    /\ error.kind = "incomplete"

====
